---- MODULE Spec2Model ----
(***************************************************************************)
(* A model of the Direct3D 9 renderer for imgui-rs (src/src/lib.rs):       *)
(* Renderer::new, the texture registry, and Renderer::render with its      *)
(* helpers set_render_state, lock_buffers, write_buffers, render_impl and  *)
(* the StateBackup guard.  Every device call is one step that may succeed  *)
(* or fail, so that every `?`, `unwrap` and `expect` of the source is a    *)
(* branch of the model.                                                    *)
(*                                                                         *)
(* f32 values are kept in fixed point, as a count of halves (FX(10) is     *)
(* 10.0, FX(10)+1 is 10.5); a product of two such values is a count of     *)
(* quarters, and a cast to an integer truncates toward zero.               *)
(***************************************************************************)
EXTENDS Integers, Sequences, FiniteSets, TLC

(* ------------------------------------------------------------------ *)
(* Program constants                                                   *)
(* ------------------------------------------------------------------ *)

\* const FONT_TEX_ID: usize = !0 (all bits set; -1 as a two's complement number)
FONT_TEX_ID == -1

VERTEX_BUF_ADD_CAPACITY == 5000
INDEX_BUF_ADD_CAPACITY == 10000

(* ------------------------------------------------------------------ *)
(* Bounds of the model                                                 *)
(* ------------------------------------------------------------------ *)

\* draw lists per generated frame
MaxLists == 2
\* draw commands per generated frame, over all its draw lists
MaxCmds == 2

(* ------------------------------------------------------------------ *)
(* Fixed-point f32 and the casts of the source                         *)
(* ------------------------------------------------------------------ *)

FX(n) == 2 * n

\* quotient rounded toward zero
TruncDiv(a, b) == IF a >= 0 THEN a \div b ELSE -((-a) \div b)

\* a cast that rounds down
QuartersFloored(q) == q \div 4

\* `x as i32` of a product of two f32 (a count of quarters): the fraction is dropped
QuartersAsI32(q) == TruncDiv(q, 4)

\* `x as u32` of a product of two f32: the fraction is dropped, negatives saturate to 0
QuartersAsU32(q) == IF q < 0 THEN 0 ELSE q \div 4

(* ------------------------------------------------------------------ *)
(* Draw data: DrawData, DrawList, DrawCmd, DrawVert                    *)
(* ------------------------------------------------------------------ *)

Elements(count, clip_rect, texture_id) ==
    [kind |-> "Elements", count |-> count, clip_rect |-> clip_rect, texture_id |-> texture_id]

ResetRenderState ==
    [kind |-> "ResetRenderState", count |-> 0, clip_rect |-> <<0, 0, 0, 0>>, texture_id |-> 0]

RawCallback ==
    [kind |-> "RawCallback", count |-> 0, clip_rect |-> <<0, 0, 0, 0>>, texture_id |-> 0]

\* the four corner colours of the generated primitives, in source byte order
CornerCol == << <<10, 20, 30, 40>>, <<255, 0, 0, 255>>, <<0, 0, 255, 128>>, <<7, 7, 7, 7>> >>

\* vertex number j (from 0) of a generated draw list
DrawVert(j) ==
    [pos |-> <<FX(10 * (j % 4)), FX(j) + 1>>,
     col |-> CornerCol[(j % 4) + 1],
     uv  |-> <<j % 2, (j \div 2) % 2>>]

\* an Elements command of count 6 is a quad (4 vertices), any other a run of triangles
VertsOf(cmd) == IF cmd.kind # "Elements" THEN 0
                ELSE IF cmd.count = 6 THEN 4 ELSE cmd.count

\* the indices of one primitive batch whose first vertex is b
IndicesOf(cmd, b) ==
    IF cmd.kind # "Elements" THEN <<>>
    ELSE IF cmd.count = 6 THEN <<b, b + 1, b + 2, b, b + 2, b + 3>>
    ELSE [i \in 1..cmd.count |-> b + i - 1]

RECURSIVE SumVerts(_)
SumVerts(cmds) == IF cmds = <<>> THEN 0 ELSE VertsOf(Head(cmds)) + SumVerts(Tail(cmds))

RECURSIVE ListIndices(_, _)
ListIndices(cmds, b) ==
    IF cmds = <<>> THEN <<>>
    ELSE IndicesOf(Head(cmds), b) \o ListIndices(Tail(cmds), b + VertsOf(Head(cmds)))

\* a well-formed draw list: the vertices and indices its commands draw
MkDrawList(cmds) ==
    [vtx_buffer |-> [j \in 1..SumVerts(cmds) |-> DrawVert(j - 1)],
     idx_buffer |-> ListIndices(cmds, 0),
     commands   |-> cmds]

RECURSIVE SumVtx(_)
SumVtx(lists) == IF lists = <<>> THEN 0 ELSE Len(Head(lists).vtx_buffer) + SumVtx(Tail(lists))

RECURSIVE SumIdx(_)
SumIdx(lists) == IF lists = <<>> THEN 0 ELSE Len(Head(lists).idx_buffer) + SumIdx(Tail(lists))

RECURSIVE SumCmds(_)
SumCmds(cmdss) == IF cmdss = <<>> THEN 0 ELSE Len(Head(cmdss)) + SumCmds(Tail(cmdss))

\* a well-formed DrawData: the totals are the sums over the draw lists
MkDrawData(display_pos, display_size, framebuffer_scale, lists) ==
    [display_pos       |-> display_pos,
     display_size      |-> display_size,
     framebuffer_scale |-> framebuffer_scale,
     total_vtx_count   |-> SumVtx(lists),
     total_idx_count   |-> SumIdx(lists),
     draw_lists        |-> lists]

NoDrawData == MkDrawData(<<0, 0>>, <<0, 0>>, <<0, 0>>, <<>>)

(* ------------------------------------------------------------------ *)
(* Inputs                                                              *)
(* ------------------------------------------------------------------ *)

\* a texture id the caller uses for its own texture
UserTexIds == {0}
TexIds == UserTexIds \cup {FONT_TEX_ID}

ClipA == <<FX(10), FX(10), FX(50), FX(50)>>
ClipB == <<FX(0), FX(5), FX(20), FX(30)>>

Cmds == {Elements(6, ClipA, FONT_TEX_ID), Elements(3, ClipB, 0),
         ResetRenderState, RawCallback}

SeqsUpTo(S, n) == UNION {[1..k -> S] : k \in 0..n}

\* the command sequences of the draw lists of a generated frame
ListShapes == {cs \in SeqsUpTo(SeqsUpTo(Cmds, MaxCmds), MaxLists) : SumCmds(cs) <= MaxCmds}

DisplayPos == <<FX(0), FX(0)>>
DisplayScale == <<FX(1), FX(1)>>
DisplaySizes == {<<FX(100), FX(80)>>, <<FX(-1), FX(80)>>, <<FX(100), FX(-1)>>}

Frames ==
    {MkDrawData(DisplayPos, sz, DisplayScale, [k \in 1..Len(cs) |-> MkDrawList(cs[k])]) :
        sz \in DisplaySizes, cs \in ListShapes}

(* ------------------------------------------------------------------ *)
(* The device: the state a D3DSBT_ALL state block captures             *)
(* ------------------------------------------------------------------ *)

RenderStates == {"FILLMODE", "SHADEMODE", "ZWRITEENABLE", "ALPHATESTENABLE", "CULLMODE",
                 "ZENABLE", "ALPHABLENDENABLE", "BLENDOP", "SRCBLEND", "DESTBLEND",
                 "SEPARATEALPHABLENDENABLE", "SRCBLENDALPHA", "DESTBLENDALPHA",
                 "SCISSORTESTENABLE", "FOGENABLE", "RANGEFOGENABLE", "SPECULARENABLE",
                 "STENCILENABLE", "CLIPPING", "LIGHTING"}

TextureStageStates == {"0.COLOROP", "0.COLORARG1", "0.COLORARG2", "0.ALPHAOP",
                       "0.ALPHAARG1", "0.ALPHAARG2", "1.COLOROP", "1.ALPHAOP"}

SamplerStates == {"0.MINFILTER", "0.MAGFILTER"}

Transforms == {"TYPE_0", "VIEW", "PROJECTION"}

\* a matrix is kept by the parameters its entries are computed from
Matrix(kind, l, r, t, b) == [kind |-> kind, l |-> l, r |-> r, t |-> t, b |-> b]

MAT_IDENTITY == Matrix("identity", 0, 0, 0, 0)

\* the device state of the application before it calls the renderer
AppDevice ==
    [viewport      |-> <<0, 0, 760, 760, 0, 1>>,
     pixel_shader  |-> "app_ps",
     vertex_shader |-> "app_vs",
     rs            |-> [k \in RenderStates |-> "app"],
     tss           |-> [k \in TextureStageStates |-> "app"],
     samp          |-> [k \in SamplerStates |-> "app"],
     transform     |-> [k \in Transforms |-> Matrix("app", 0, 0, 0, 0)],
     texture0      |-> "app_tex",
     scissor       |-> <<0, 0, 760, 760>>,
     stream0       |-> "app_vb",
     indices       |-> "app_ib",
     fvf           |-> "app_fvf"]

DeviceCall(fn, key, val) == [fn |-> fn, key |-> key, val |-> val]

\* the effect of one successful state-setting call on the device state
ApplyCall(d, c) ==
    CASE c.fn = "SetViewport"          -> [d EXCEPT !.viewport = c.val]
      [] c.fn = "SetPixelShader"       -> [d EXCEPT !.pixel_shader = c.val]
      [] c.fn = "SetVertexShader"      -> [d EXCEPT !.vertex_shader = c.val]
      [] c.fn = "SetRenderState"       -> [d EXCEPT !.rs[c.key] = c.val]
      [] c.fn = "SetTextureStageState" -> [d EXCEPT !.tss[c.key] = c.val]
      [] c.fn = "SetSamplerState"      -> [d EXCEPT !.samp[c.key] = c.val]
      [] c.fn = "SetTransform"         -> [d EXCEPT !.transform[c.key] = c.val]
      [] c.fn = "SetTexture"           -> [d EXCEPT !.texture0 = c.val]
      [] c.fn = "SetScissorRect"       -> [d EXCEPT !.scissor = c.val]
      [] c.fn = "SetStreamSource"      -> [d EXCEPT !.stream0 = c.val]
      [] c.fn = "SetIndices"           -> [d EXCEPT !.indices = c.val]
      [] c.fn = "SetFVF"               -> [d EXCEPT !.fvf = c.val]

\* the device calls of set_render_state, in the order of the source
set_render_state(dd) ==
    LET fb_width  == dd.display_size[1] * dd.framebuffer_scale[1]
        fb_height == dd.display_size[2] * dd.framebuffer_scale[2]
        l == dd.display_pos[1] + 1
        r == dd.display_pos[1] + dd.display_size[1] + 1
        t == dd.display_pos[2] + 1
        b == dd.display_pos[2] + dd.display_size[2] + 1
    IN << DeviceCall("SetViewport", "",
                     <<0, 0, QuartersAsU32(fb_width), QuartersAsU32(fb_height), 0, 1>>),
          DeviceCall("SetPixelShader", "", "None"),
          DeviceCall("SetVertexShader", "", "None"),
          DeviceCall("SetRenderState", "FILLMODE", "D3DFILL_SOLID"),
          DeviceCall("SetRenderState", "SHADEMODE", "D3DSHADE_GOURAUD"),
          DeviceCall("SetRenderState", "ZWRITEENABLE", "FALSE"),
          DeviceCall("SetRenderState", "ALPHATESTENABLE", "FALSE"),
          DeviceCall("SetRenderState", "CULLMODE", "D3DCULL_NONE"),
          DeviceCall("SetRenderState", "ZENABLE", "FALSE"),
          DeviceCall("SetRenderState", "ALPHABLENDENABLE", "TRUE"),
          DeviceCall("SetRenderState", "BLENDOP", "D3DBLENDOP_ADD"),
          DeviceCall("SetRenderState", "SRCBLEND", "D3DBLEND_SRCALPHA"),
          DeviceCall("SetRenderState", "DESTBLEND", "D3DBLEND_INVSRCALPHA"),
          DeviceCall("SetRenderState", "SEPARATEALPHABLENDENABLE", "TRUE"),
          DeviceCall("SetRenderState", "SRCBLENDALPHA", "D3DBLEND_ONE"),
          DeviceCall("SetRenderState", "DESTBLENDALPHA", "D3DBLEND_INVSRCALPHA"),
          DeviceCall("SetRenderState", "SCISSORTESTENABLE", "TRUE"),
          DeviceCall("SetRenderState", "FOGENABLE", "FALSE"),
          DeviceCall("SetRenderState", "RANGEFOGENABLE", "FALSE"),
          DeviceCall("SetRenderState", "SPECULARENABLE", "FALSE"),
          DeviceCall("SetRenderState", "STENCILENABLE", "FALSE"),
          DeviceCall("SetRenderState", "CLIPPING", "TRUE"),
          DeviceCall("SetRenderState", "LIGHTING", "FALSE"),
          DeviceCall("SetTextureStageState", "0.COLOROP", "D3DTOP_MODULATE"),
          DeviceCall("SetTextureStageState", "0.COLORARG1", "D3DTA_TEXTURE"),
          DeviceCall("SetTextureStageState", "0.COLORARG2", "D3DTA_DIFFUSE"),
          DeviceCall("SetTextureStageState", "0.ALPHAOP", "D3DTOP_MODULATE"),
          DeviceCall("SetTextureStageState", "0.ALPHAARG1", "D3DTA_TEXTURE"),
          DeviceCall("SetTextureStageState", "0.ALPHAARG2", "D3DTA_DIFFUSE"),
          DeviceCall("SetTextureStageState", "1.COLOROP", "D3DTOP_DISABLE"),
          DeviceCall("SetTextureStageState", "1.ALPHAOP", "D3DTOP_DISABLE"),
          DeviceCall("SetSamplerState", "0.MINFILTER", "D3DTEXF_LINEAR"),
          DeviceCall("SetSamplerState", "0.MAGFILTER", "D3DTEXF_LINEAR"),
          DeviceCall("SetTransform", "TYPE_0", MAT_IDENTITY),
          DeviceCall("SetTransform", "VIEW", MAT_IDENTITY),
          DeviceCall("SetTransform", "PROJECTION", Matrix("projection", l, r, t, b)) >>

\* what a RawCallback may do to the device: nothing, bind a texture of its own on
\* stage 0, or change a render state
CallbackEffects == {"none", "texture", "render_state"}

callback(d, effect) ==
    CASE effect = "none"         -> d
      [] effect = "texture"      -> [d EXCEPT !.texture0 = "callback_tex"]
      [] effect = "render_state" -> [d EXCEPT !.rs["ALPHABLENDENABLE"] = "callback"]

(* ------------------------------------------------------------------ *)
(* The renderer's pure parts                                           *)
(* ------------------------------------------------------------------ *)

\* (buffer, capacity): a fresh buffer of vtx_count + VERTEX_BUF_ADD_CAPACITY vertices
create_vertex_buffer(vtx_count) ==
    [cap |-> vtx_count + VERTEX_BUF_ADD_CAPACITY]

\* a create_index_buffer that adds the margin of the vertex buffer
create_index_buffer_vertex_margin(idx_count) ==
    [cap |-> idx_count + VERTEX_BUF_ADD_CAPACITY]

\* (buffer, capacity): a fresh buffer of idx_count + INDEX_BUF_ADD_CAPACITY indices
create_index_buffer(idx_count) ==
    [cap |-> idx_count + INDEX_BUF_ADD_CAPACITY]

\* a sizing test that refits the buffer to every frame
vertex_buffer_refit(buf, dd) == buf.cap # dd.total_vtx_count + VERTEX_BUF_ADD_CAPACITY

\* render: the vertex buffer is replaced when it is smaller than the frame
vertex_buffer_too_small(buf, dd) == buf.cap < dd.total_vtx_count

\* render: the index buffer is replaced when it is smaller than the frame
index_buffer_too_small(buf, dd) == buf.cap < dd.total_idx_count

\* an early return that wants both dimensions negative
display_size_both_negative(dd) == dd.display_size[1] < 0 /\ dd.display_size[2] < 0

\* render: the early return on a negative display size
display_size_negative(dd) == dd.display_size[1] < 0 \/ dd.display_size[2] < 0

\* StateBackup::backup: the state block holds the device state of the moment
StateBackup_backup(d) == <<d>>

\* a drop that applies nothing
StateBackup_drop_keeps(guard, d) == d

\* StateBackup::drop: Apply puts the captured state back
StateBackup_drop(guard, d) == guard[1]

\* a copy that keeps the source's channel order
CustomVertex_unswapped(vertex) ==
    [pos |-> <<vertex.pos[1], vertex.pos[2], 0>>,
     col |-> <<vertex.col[1], vertex.col[2], vertex.col[3], vertex.col[4]>>,
     uv  |-> <<vertex.uv[1], vertex.uv[2]>>]

\* write_buffers: one source vertex as a CustomVertex
CustomVertex(vertex) ==
    [pos |-> <<vertex.pos[1], vertex.pos[2], 0>>,
     col |-> <<vertex.col[3], vertex.col[2], vertex.col[1], vertex.col[4]>>,
     uv  |-> <<vertex.uv[1], vertex.uv[2]>>]

\* the content of freshly locked (D3DLOCK_DISCARD) memory, before anything is written
UninitVertex == [pos |-> <<-1, -1, -1>>, col |-> <<-1, -1, -1, -1>>, uv |-> <<-1, -1>>]
UninitIndex == -1

\* lock_buffers: the two slices, of the frame's total counts
lock_buffers(vtx_count, idx_count) ==
    [vtx_dst |-> [p \in 1..vtx_count |-> UninitVertex],
     idx_dst |-> [p \in 1..idx_count |-> UninitIndex]]

\* write_buffers: the copy loop.  voff and ioff are where the two remaining
\* slices start; zip stops at the end of the shorter of its two sides.  starts
\* keeps, for every draw list, <<voff, ioff>> of the moment it was copied
RECURSIVE write_lists(_, _, _, _, _)
write_lists(lists, vtx_dst, idx_dst, voff, ioff) ==
    IF lists = <<>> THEN [vtx_dst |-> vtx_dst, idx_dst |-> idx_dst, starts |-> <<>>]
    ELSE LET vbuf == Head(lists).vtx_buffer
             ibuf == Head(lists).idx_buffer
             v2 == [p \in 1..Len(vtx_dst) |->
                        IF p > voff /\ p <= voff + Len(vbuf)
                        THEN CustomVertex(vbuf[p - voff]) ELSE vtx_dst[p]]
             i2 == [p \in 1..Len(idx_dst) |->
                        IF p > ioff /\ p <= ioff + Len(ibuf)
                        THEN ibuf[p - ioff] ELSE idx_dst[p]]
             w  == write_lists(Tail(lists), v2, i2, voff + Len(vbuf), ioff + Len(ibuf))
         IN [w EXCEPT !.starts = << <<voff, ioff>> >> \o @]

\* render_impl: the scissor rectangle <<left, top, right, bottom>> of a command
scissor_rect(clip_rect, clip_off, clip_scale) ==
    << QuartersAsI32((clip_rect[1] - clip_off[1]) * clip_scale[1]),
       QuartersAsI32((clip_rect[2] - clip_off[2]) * clip_scale[2]),
       QuartersAsI32((clip_rect[3] - clip_off[1]) * clip_scale[1]),
       QuartersAsI32((clip_rect[4] - clip_off[2]) * clip_scale[2]) >>

\* render_impl: the texture of a command, <<texture>>, or <<>> when the registry
\* has none under that id
resolve_texture(texture_id, font, registry) ==
    IF texture_id = FONT_TEX_ID THEN <<font>>
    ELSE IF texture_id \in DOMAIN registry THEN <<registry[texture_id]>> ELSE <<>>

\* render_impl: a command's texture is bound only when its id differs from last_tex
texture_changed(texture_id, last_tex) == texture_id # last_tex

\* render_impl: the arguments of DrawIndexedPrimitive
draw_args(vertex_offset, index_offset, draw_list, count) ==
    [base_vertex  |-> vertex_offset,
     min_index    |-> 0,
     num_vertices |-> Len(draw_list.vtx_buffer),
     start_index  |-> index_offset,
     prim_count   |-> count \div 3]

\* an index offset that advances by the primitives drawn, not by the indices
next_index_offset_by_primitives(index_offset, count) == index_offset + count \div 3

\* render_impl: index_offset += count after a draw
next_index_offset(index_offset, count) == index_offset + count

\* a vertex offset that advances by the indices of the draw list
next_vertex_offset_by_indices(vertex_offset, draw_list) ==
    vertex_offset + Len(draw_list.idx_buffer)

\* render_impl: vertex_offset += draw_list.vtx_buffer().len() after a draw list
next_vertex_offset(vertex_offset, draw_list) == vertex_offset + Len(draw_list.vtx_buffer)

\* the locals of render and its helpers
Loc0 == [vertex_offset |-> 0, index_offset |-> 0, last_tex |-> FONT_TEX_ID,
         li |-> 1, ci |-> 1, srs_i |-> 1, srs_ret |-> "",
         vtx_dst |-> <<>>, idx_dst |-> <<>>]

\* the two for loops of render_impl: the position of the next command, past every
\* finished draw list (li = number of lists + 1 when the frame is finished)
RECURSIVE next_command(_, _)
next_command(l, dd) ==
    IF l.li > Len(dd.draw_lists) THEN l
    ELSE IF l.ci <= Len(dd.draw_lists[l.li].commands) THEN l
    ELSE next_command([l EXCEPT !.li = l.li + 1, !.ci = 1,
                                !.vertex_offset =
                                    next_vertex_offset(l.vertex_offset, dd.draw_lists[l.li])],
                      dd)

(* ------------------------------------------------------------------ *)
(* State                                                               *)
(* ------------------------------------------------------------------ *)

VARIABLES
    pc,             \* where the program is
    ctx,            \* the imgui Context the caller hands to new
    font_tex,       \* Renderer.font_tex
    vertex_buffer,  \* Renderer.vertex_buffer: the capacity of the current buffer
    index_buffer,   \* Renderer.index_buffer: the capacity of the current buffer
    textures,       \* Renderer.textures: texture id -> texture
    dev,            \* the captured state of the device
    draw_data,      \* the argument of the running render call
    state_guard,    \* _state_guard of render: <<>> or <<the captured device state>>
    loc,            \* the locals of render_impl, set_render_state and write_buffers
    locked,         \* the buffers the running call has locked and not unlocked
    uploaded,       \* what write_buffers has put into the two buffers, and where
    before,         \* the device state and the buffers at the moment render was called
    calls,          \* the device calls of the running call, each with its outcome
    draws,          \* the DrawIndexedPrimitive calls among them, with their arguments
    result          \* what the call returned

vars == <<pc, ctx, font_tex, vertex_buffer, index_buffer, textures, dev, draw_data,
          state_guard, loc, locked, uploaded, before, calls, draws, result>>

renderer == <<font_tex, vertex_buffer, index_buffer, textures>>

NoBuffer == [cap |-> 0]
NoGuard == <<>>
NoTextures == <<>>

Call(op, ok) == [op |-> op, ok |-> ok]

NoUpload == [vtx_dst |-> <<>>, idx_dst |-> <<>>, starts |-> <<>>]

Before0 == [dev |-> AppDevice, vertex_buffer |-> NoBuffer, index_buffer |-> NoBuffer]

Ctx0 == [tex_id |-> 0, backend_flags |-> {}, renderer_name |-> "", atlas_built |-> FALSE]

Init ==
    /\ pc = "new"
    /\ ctx = Ctx0
    /\ font_tex = "None"
    /\ vertex_buffer = NoBuffer
    /\ index_buffer = NoBuffer
    /\ textures = NoTextures
    /\ dev = AppDevice
    /\ draw_data = NoDrawData
    /\ state_guard = NoGuard
    /\ loc = Loc0
    /\ locked = {}
    /\ uploaded = NoUpload
    /\ before = Before0
    /\ calls = <<>>
    /\ draws = <<>>
    /\ result = "none"

(* ------------------------------------------------------------------ *)
(* Renderer::new                                                       *)
(* ------------------------------------------------------------------ *)

\* a `?` of new or create_font_texture that returns the device's error
NewFails(cs) ==
    /\ pc' = "new_failed"
    /\ result' = "DeviceError"
    /\ calls' = cs
    /\ font_tex' = "None"
    /\ vertex_buffer' = NoBuffer
    /\ index_buffer' = NoBuffer

\* create_font_texture: build_rgba32_texture, CreateTexture
NewCreateTexture ==
    /\ pc = "new"
    /\ \E ok \in BOOLEAN :
        LET cs == Append(calls, Call("CreateTexture", ok)) IN
        /\ ctx' = [ctx EXCEPT !.atlas_built = TRUE]
        /\ IF ok THEN /\ pc' = "new_lock_rect"
                      /\ calls' = cs
                      /\ UNCHANGED <<result, font_tex, vertex_buffer, index_buffer>>
                 ELSE NewFails(cs)
    /\ UNCHANGED <<uploaded, before, textures, dev, draw_data, state_guard, loc, locked, draws>>

\* create_font_texture: LockRect, then the rows are copied
NewLockRect ==
    /\ pc = "new_lock_rect"
    /\ \E ok \in BOOLEAN :
        LET cs == Append(calls, Call("LockRect", ok)) IN
        IF ok THEN /\ pc' = "new_unlock_rect"
                   /\ calls' = cs
                   /\ UNCHANGED <<result, font_tex, vertex_buffer, index_buffer>>
              ELSE NewFails(cs)
    /\ UNCHANGED <<uploaded, before, ctx, textures, dev, draw_data, state_guard, loc, locked,
                   draws>>

\* create_font_texture: UnlockRect, fonts.tex_id = FONT_TEX_ID
NewUnlockRect ==
    /\ pc = "new_unlock_rect"
    /\ \E ok \in BOOLEAN :
        LET cs == Append(calls, Call("UnlockRect", ok)) IN
        IF ok THEN /\ pc' = "new_cast"
                   /\ calls' = cs
                   /\ ctx' = [ctx EXCEPT !.tex_id = FONT_TEX_ID]
                   /\ UNCHANGED <<result, font_tex, vertex_buffer, index_buffer>>
              ELSE NewFails(cs) /\ UNCHANGED ctx
    /\ UNCHANGED <<uploaded, before, textures, dev, draw_data, state_guard, loc, locked, draws>>

\* new: let font_tex: IDirect3DBaseTexture9 = t.cast()?
NewCast ==
    /\ pc = "new_cast"
    /\ \E ok \in BOOLEAN :
        LET cs == Append(calls, Call("cast", ok)) IN
        IF ok THEN /\ pc' = "new_context"
                   /\ calls' = cs
                   /\ font_tex' = "font_tex"
                   /\ UNCHANGED <<result, vertex_buffer, index_buffer>>
              ELSE NewFails(cs)
    /\ UNCHANGED <<uploaded, before, ctx, textures, dev, draw_data, state_guard, loc, locked,
                   draws>>

\* new: the backend flag and the renderer name
NewContext ==
    /\ pc = "new_context"
    /\ pc' = "new_vertex_buffer"
    /\ ctx' = [ctx EXCEPT !.backend_flags = @ \cup {"RENDERER_HAS_VTX_OFFSET"},
                          !.renderer_name = "imgui_dx9_renderer"]
    /\ UNCHANGED <<uploaded, before, font_tex, vertex_buffer, index_buffer, textures, dev,
                   draw_data, state_guard, loc, locked, calls, draws, result>>

\* new: create_vertex_buffer(&device, 0)
NewVertexBuffer ==
    /\ pc = "new_vertex_buffer"
    /\ \E ok \in BOOLEAN :
        LET cs == Append(calls, Call("CreateVertexBuffer", ok)) IN
        IF ok THEN /\ pc' = "new_index_buffer"
                   /\ calls' = cs
                   /\ vertex_buffer' = create_vertex_buffer(0)
                   /\ UNCHANGED <<result, font_tex, index_buffer>>
              ELSE NewFails(cs)
    /\ UNCHANGED <<uploaded, before, ctx, textures, dev, draw_data, state_guard, loc, locked,
                   draws>>

\* new: create_index_buffer(&device, 0), Textures::new(), Ok(Renderer { .. })
NewIndexBuffer ==
    /\ pc = "new_index_buffer"
    /\ \E ok \in BOOLEAN :
        LET cs == Append(calls, Call("CreateIndexBuffer", ok)) IN
        IF ok THEN /\ pc' = "idle"
                   /\ calls' = <<>>
                   /\ index_buffer' = create_index_buffer(0)
                   /\ UNCHANGED <<result, font_tex, vertex_buffer>>
              ELSE NewFails(cs)
    /\ textures' = NoTextures
    /\ UNCHANGED <<uploaded, before, ctx, dev, draw_data, state_guard, loc, locked, draws>>

(* ------------------------------------------------------------------ *)
(* The texture registry, through textures_mut                          *)
(* ------------------------------------------------------------------ *)

\* what the caller keeps in the registry: nothing, or a texture of its own under
\* every id of TexIds, the reserved one included
Registries == {NoTextures, [id \in TexIds |-> "user_tex"]}

\* the caller rewrites the registry (Textures::replace, Textures::remove)
TexturesMut ==
    /\ pc = "idle"
    /\ \E r \in Registries :
        /\ r # textures
        /\ textures' = r
    /\ UNCHANGED <<uploaded, before, pc, ctx, font_tex, vertex_buffer, index_buffer, dev,
                   draw_data, state_guard, loc, locked, calls, draws, result>>

(* ------------------------------------------------------------------ *)
(* Renderer::render                                                    *)
(* ------------------------------------------------------------------ *)

\* render leaves with res: every return and every panic drops _state_guard, if it
\* was created, and StateBackup::drop calls Apply and panics when Apply fails
Exit(res, d, cs) ==
    /\ loc' = Loc0
    /\ state_guard' = NoGuard
    /\ IF state_guard = NoGuard
       THEN /\ pc' = IF res = "Panic" THEN "panicked" ELSE "returned"
            /\ result' = res
            /\ dev' = d
            /\ calls' = cs
       ELSE \E apply_ok \in BOOLEAN :
            /\ calls' = Append(cs, Call("Apply", apply_ok))
            /\ dev' = IF apply_ok THEN StateBackup_drop(state_guard, d) ELSE d
            /\ pc' = IF apply_ok /\ res # "Panic" THEN "returned" ELSE "panicked"
            /\ result' = IF apply_ok THEN res ELSE "Panic"

\* render goes on at next
Continue(next, d, cs, l) ==
    /\ pc' = next
    /\ dev' = d
    /\ calls' = cs
    /\ loc' = l
    /\ UNCHANGED <<result, state_guard>>

\* the caller calls render(draw_data)
Render(frames) ==
    /\ pc = "idle"
    /\ \E dd \in frames :
        /\ draw_data' = dd
        /\ IF display_size_negative(dd)
           THEN pc' = "returned" /\ result' = "Ok"
           ELSE pc' = "size_vertex_buffer" /\ result' = "none"
    /\ before' = [dev |-> dev, vertex_buffer |-> vertex_buffer, index_buffer |-> index_buffer]
    /\ calls' = <<>>
    /\ draws' = <<>>
    /\ UNCHANGED <<uploaded, ctx, font_tex, vertex_buffer, index_buffer, textures, dev,
                   state_guard, loc, locked>>

\* the caller has the result of render or new's Renderer in hand
ReturnToCaller ==
    /\ pc = "returned"
    /\ pc' = "idle"
    /\ draw_data' = NoDrawData
    /\ calls' = <<>>
    /\ draws' = <<>>
    /\ result' = "none"
    /\ locked' = {}
    /\ before' = Before0
    /\ uploaded' = NoUpload
    /\ UNCHANGED <<ctx, font_tex, vertex_buffer, index_buffer, textures, dev, state_guard, loc>>

\* if self.vertex_buffer.1 < total_vtx_count { self.vertex_buffer = create_vertex_buffer(..)? }
SizeVertexBuffer ==
    /\ pc = "size_vertex_buffer"
    /\ IF vertex_buffer_too_small(vertex_buffer, draw_data)
       THEN \E ok \in BOOLEAN :
            LET cs == Append(calls, Call("CreateVertexBuffer", ok)) IN
            IF ok THEN /\ vertex_buffer' = create_vertex_buffer(draw_data.total_vtx_count)
                       /\ Continue("size_index_buffer", dev, cs, loc)
                  ELSE /\ UNCHANGED vertex_buffer
                       /\ Exit("DeviceError", dev, cs)
       ELSE /\ UNCHANGED vertex_buffer
            /\ Continue("size_index_buffer", dev, calls, loc)
    /\ UNCHANGED <<uploaded, before, ctx, font_tex, index_buffer, textures, draw_data, locked,
                   draws>>

\* if self.index_buffer.1 < total_idx_count { self.index_buffer = create_index_buffer(..)? }
SizeIndexBuffer ==
    /\ pc = "size_index_buffer"
    /\ IF index_buffer_too_small(index_buffer, draw_data)
       THEN \E ok \in BOOLEAN :
            LET cs == Append(calls, Call("CreateIndexBuffer", ok)) IN
            IF ok THEN /\ index_buffer' = create_index_buffer(draw_data.total_idx_count)
                       /\ Continue("backup", dev, cs, loc)
                  ELSE /\ UNCHANGED index_buffer
                       /\ Exit("DeviceError", dev, cs)
       ELSE /\ UNCHANGED index_buffer
            /\ Continue("backup", dev, calls, loc)
    /\ UNCHANGED <<uploaded, before, ctx, font_tex, vertex_buffer, textures, draw_data, locked,
                   draws>>

\* let _state_guard = StateBackup::backup(&self.device)?; then set_render_state begins
Backup ==
    /\ pc = "backup"
    /\ \E ok \in BOOLEAN :
        LET cs == Append(calls, Call("CreateStateBlock", ok)) IN
        IF ok THEN /\ state_guard' = StateBackup_backup(dev)
                   /\ pc' = "set_render_state"
                   /\ calls' = cs
                   /\ loc' = [loc EXCEPT !.srs_i = 1, !.srs_ret = "lock_vertex_buffer"]
                   /\ UNCHANGED <<dev, result>>
              ELSE Exit("DeviceError", dev, cs)
    /\ UNCHANGED <<uploaded, before, ctx, font_tex, vertex_buffer, index_buffer, textures,
                   draw_data, locked, draws>>

\* set_render_state: its next device call; after the last one the caller goes on
SetRenderStateCall ==
    /\ pc = "set_render_state"
    /\ LET c == set_render_state(draw_data)[loc.srs_i] IN
       \E ok \in BOOLEAN :
        LET cs == Append(calls, Call(c.fn, ok)) IN
        IF ok THEN IF loc.srs_i < Len(set_render_state(draw_data))
                   THEN Continue(pc, ApplyCall(dev, c), cs, [loc EXCEPT !.srs_i = @ + 1])
                   ELSE Continue(loc.srs_ret, ApplyCall(dev, c), cs,
                                 [loc EXCEPT !.srs_i = 1, !.srs_ret = ""])
              ELSE Exit("DeviceError", dev, cs)
    /\ UNCHANGED <<uploaded, before, ctx, font_tex, vertex_buffer, index_buffer, textures,
                   draw_data, locked, draws>>

\* lock_buffers: vb.Lock(..)?
LockVertexBuffer ==
    /\ pc = "lock_vertex_buffer"
    /\ \E ok \in BOOLEAN :
        LET cs == Append(calls, Call("VertexBuffer.Lock", ok)) IN
        IF ok THEN /\ locked' = locked \cup {"vertex_buffer"}
                   /\ Continue("lock_index_buffer", dev, cs, loc)
              ELSE /\ UNCHANGED locked
                   /\ Exit("DeviceError", dev, cs)
    /\ UNCHANGED <<uploaded, before, ctx, font_tex, vertex_buffer, index_buffer, textures,
                   draw_data, draws>>

\* lock_buffers: ib.Lock(..); when it fails, vb.Unlock()? and the error is returned
LockIndexBuffer ==
    /\ pc = "lock_index_buffer"
    /\ \E ok \in BOOLEAN :
        LET cs == Append(calls, Call("IndexBuffer.Lock", ok)) IN
        IF ok THEN /\ locked' = locked \cup {"index_buffer"}
                   /\ Continue("write_buffers", dev, cs,
                        [loc EXCEPT
                           !.vtx_dst = lock_buffers(draw_data.total_vtx_count,
                                                    draw_data.total_idx_count).vtx_dst,
                           !.idx_dst = lock_buffers(draw_data.total_vtx_count,
                                                    draw_data.total_idx_count).idx_dst])
              ELSE \E unlock_ok \in BOOLEAN :
                   /\ locked' = IF unlock_ok THEN locked \ {"vertex_buffer"} ELSE locked
                   /\ Exit("DeviceError", dev, Append(cs, Call("VertexBuffer.Unlock", unlock_ok)))
    /\ UNCHANGED <<uploaded, before, ctx, font_tex, vertex_buffer, index_buffer, textures,
                   draw_data, draws>>

\* write_buffers: the copy loop over the draw lists
WriteBuffers ==
    /\ pc = "write_buffers"
    /\ LET w == write_lists(draw_data.draw_lists, loc.vtx_dst, loc.idx_dst, 0, 0) IN
       /\ Continue("unlock_vertex_buffer", dev, calls,
                   [loc EXCEPT !.vtx_dst = w.vtx_dst, !.idx_dst = w.idx_dst])
       /\ uploaded' = w
    /\ UNCHANGED <<before, ctx, font_tex, vertex_buffer, index_buffer, textures, draw_data,
                   locked, draws>>

\* write_buffers: self.vertex_buffer.0.Unlock()?
UnlockVertexBuffer ==
    /\ pc = "unlock_vertex_buffer"
    /\ \E ok \in BOOLEAN :
        LET cs == Append(calls, Call("VertexBuffer.Unlock", ok)) IN
        IF ok THEN /\ locked' = locked \ {"vertex_buffer"}
                   /\ Continue("unlock_index_buffer", dev, cs, [loc EXCEPT !.vtx_dst = <<>>])
              ELSE /\ UNCHANGED locked
                   /\ Exit("DeviceError", dev, cs)
    /\ UNCHANGED <<uploaded, before, ctx, font_tex, vertex_buffer, index_buffer, textures,
                   draw_data, draws>>

\* write_buffers: self.index_buffer.0.Unlock()?
UnlockIndexBuffer ==
    /\ pc = "unlock_index_buffer"
    /\ \E ok \in BOOLEAN :
        LET cs == Append(calls, Call("IndexBuffer.Unlock", ok)) IN
        IF ok THEN /\ locked' = locked \ {"index_buffer"}
                   /\ Continue("set_stream_source", dev, cs, [loc EXCEPT !.idx_dst = <<>>])
              ELSE /\ UNCHANGED locked
                   /\ Exit("DeviceError", dev, cs)
    /\ UNCHANGED <<uploaded, before, ctx, font_tex, vertex_buffer, index_buffer, textures,
                   draw_data, draws>>

\* write_buffers: SetStreamSource, SetIndices, SetFVF, each with `?`
BindBuffers ==
    /\ pc \in {"set_stream_source", "set_indices", "set_fvf"}
    /\ LET c == CASE pc = "set_stream_source" -> DeviceCall("SetStreamSource", "", "vertex_buffer")
                  [] pc = "set_indices"       -> DeviceCall("SetIndices", "", "index_buffer")
                  [] pc = "set_fvf"           -> DeviceCall("SetFVF", "", "D3DFVF_CUSTOMVERTEX")
           next == CASE pc = "set_stream_source" -> "set_indices"
                     [] pc = "set_indices"       -> "set_fvf"
                     [] pc = "set_fvf"           -> "bind_font_texture"
       IN \E ok \in BOOLEAN :
            LET cs == Append(calls, Call(c.fn, ok)) IN
            IF ok THEN Continue(next, ApplyCall(dev, c), cs, loc)
                  ELSE Exit("DeviceError", dev, cs)
    /\ UNCHANGED <<uploaded, before, ctx, font_tex, vertex_buffer, index_buffer, textures,
                   draw_data, locked, draws>>

(* ------------------------------------------------------------------ *)
(* Renderer::render_impl                                               *)
(* ------------------------------------------------------------------ *)

\* the command the draw loop is at
AtCommand == pc = "draw_loop" /\ loc.li <= Len(draw_data.draw_lists)
CurrentList == draw_data.draw_lists[loc.li]
CurrentCmd == CurrentList.commands[loc.ci]

\* what a failure of the first SetTexture does: unwrap() panics
bind_font_failure == "Panic"

\* self.device.SetTexture(0, &self.font_tex).unwrap(), and the loops begin
BindFontTexture ==
    /\ pc = "bind_font_texture"
    /\ \E ok \in BOOLEAN :
        LET cs == Append(calls, Call("SetTexture", ok)) IN
        IF ok THEN Continue("draw_loop",
                            ApplyCall(dev, DeviceCall("SetTexture", "", font_tex)), cs,
                            next_command([loc EXCEPT !.vertex_offset = 0, !.index_offset = 0,
                                                     !.last_tex = FONT_TEX_ID,
                                                     !.li = 1, !.ci = 1], draw_data))
              ELSE Exit(bind_font_failure, dev, cs)
    /\ UNCHANGED <<uploaded, before, ctx, font_tex, vertex_buffer, index_buffer, textures,
                   draw_data, locked, draws>>

\* DrawCmd::Elements: the texture is resolved and bound when it differs from last_tex
ElementsTexture ==
    /\ AtCommand
    /\ CurrentCmd.kind = "Elements"
    /\ LET texture_id == CurrentCmd.texture_id
           texture == resolve_texture(texture_id, font_tex, textures)
       IN IF texture_changed(texture_id, loc.last_tex)
          THEN IF texture = <<>>
               THEN Exit("DXGI_ERROR_INVALID_CALL", dev, calls)
               ELSE \E ok \in BOOLEAN :
                    LET cs == Append(calls, Call("SetTexture", ok)) IN
                    IF ok THEN Continue("set_scissor_rect",
                                        ApplyCall(dev, DeviceCall("SetTexture", "", texture[1])),
                                        cs, [loc EXCEPT !.last_tex = texture_id])
                          ELSE Exit("DeviceError", dev, cs)
          ELSE Continue("set_scissor_rect", dev, calls, loc)
    /\ UNCHANGED <<uploaded, before, ctx, font_tex, vertex_buffer, index_buffer, textures,
                   draw_data, locked, draws>>

\* DrawCmd::Elements: self.device.SetScissorRect(&r)?
SetScissorRect ==
    /\ pc = "set_scissor_rect"
    /\ LET r == scissor_rect(CurrentCmd.clip_rect, draw_data.display_pos,
                             draw_data.framebuffer_scale)
       IN \E ok \in BOOLEAN :
            LET cs == Append(calls, Call("SetScissorRect", ok)) IN
            IF ok THEN Continue("draw_indexed_primitive",
                                ApplyCall(dev, DeviceCall("SetScissorRect", "", r)), cs, loc)
                  ELSE Exit("DeviceError", dev, cs)
    /\ UNCHANGED <<uploaded, before, ctx, font_tex, vertex_buffer, index_buffer, textures,
                   draw_data, locked, draws>>

\* DrawCmd::Elements: self.device.DrawIndexedPrimitive(..)?; index_offset += count
DrawIndexedPrimitive ==
    /\ pc = "draw_indexed_primitive"
    /\ \E ok \in BOOLEAN :
        LET cs == Append(calls, Call("DrawIndexedPrimitive", ok))
            d  == [args    |-> draw_args(loc.vertex_offset, loc.index_offset, CurrentList,
                                         CurrentCmd.count),
                   li      |-> loc.li,
                   ci      |-> loc.ci,
                   ok      |-> ok,
                   texture |-> dev.texture0,
                   scissor |-> dev.scissor,
                   locked  |-> locked]
        IN /\ draws' = Append(draws, d)
           /\ IF ok THEN Continue("draw_loop", dev, cs,
                           next_command([loc EXCEPT
                               !.index_offset = next_index_offset(@, CurrentCmd.count),
                               !.ci = @ + 1], draw_data))
                    ELSE Exit("DeviceError", dev, cs)
    /\ UNCHANGED <<uploaded, before, ctx, font_tex, vertex_buffer, index_buffer, textures,
                   draw_data, locked>>

\* DrawCmd::ResetRenderState => self.set_render_state(draw_data)?
CmdResetRenderState ==
    /\ AtCommand
    /\ CurrentCmd.kind = "ResetRenderState"
    /\ Continue("set_render_state", dev, calls,
                next_command([loc EXCEPT !.ci = @ + 1, !.srs_i = 1, !.srs_ret = "draw_loop"],
                             draw_data))
    /\ UNCHANGED <<uploaded, before, ctx, font_tex, vertex_buffer, index_buffer, textures,
                   draw_data, locked, draws>>

\* DrawCmd::RawCallback => callback(draw_list.raw(), raw_cmd)
CmdRawCallback ==
    /\ AtCommand
    /\ CurrentCmd.kind = "RawCallback"
    /\ \E effect \in CallbackEffects :
        Continue("draw_loop", callback(dev, effect), Append(calls, Call("callback", TRUE)),
                 next_command([loc EXCEPT !.ci = @ + 1], draw_data))
    /\ UNCHANGED <<uploaded, before, ctx, font_tex, vertex_buffer, index_buffer, textures,
                   draw_data, locked, draws>>

\* the loops are over: Ok(())
RenderImplReturns ==
    /\ pc = "draw_loop"
    /\ loc.li > Len(draw_data.draw_lists)
    /\ Exit("Ok", dev, calls)
    /\ UNCHANGED <<uploaded, before, ctx, font_tex, vertex_buffer, index_buffer, textures,
                   draw_data, locked, draws>>

(* ------------------------------------------------------------------ *)
(* Specification                                                       *)
(* ------------------------------------------------------------------ *)

Step ==
    \/ NewCreateTexture
    \/ NewLockRect
    \/ NewUnlockRect
    \/ NewCast
    \/ NewContext
    \/ NewVertexBuffer
    \/ NewIndexBuffer
    \/ TexturesMut
    \/ ReturnToCaller
    \/ SizeVertexBuffer
    \/ SizeIndexBuffer
    \/ Backup
    \/ SetRenderStateCall
    \/ LockVertexBuffer
    \/ LockIndexBuffer
    \/ WriteBuffers
    \/ UnlockVertexBuffer
    \/ UnlockIndexBuffer
    \/ BindBuffers
    \/ BindFontTexture
    \/ ElementsTexture
    \/ SetScissorRect
    \/ DrawIndexedPrimitive
    \/ CmdResetRenderState
    \/ CmdRawCallback
    \/ RenderImplReturns

Next == Render(Frames) \/ Step

Spec == Init /\ [][Next]_vars

\* frames that outgrow the buffers: one draw list of 5001, or of 10002, vertices and
\* indices in a single Elements command, next to small frames of every command kind
\* and to frames of negative display size
GrowLists ==
    { << <<Elements(5001, ClipA, FONT_TEX_ID)>> >>,
      << <<Elements(10002, ClipA, FONT_TEX_ID)>> >>,
      << <<Elements(6, ClipA, FONT_TEX_ID), ResetRenderState>>,
         <<RawCallback, Elements(3, ClipB, 0)>> >> }

GrowSizes == {<<FX(100), FX(80)>>, <<FX(-1), FX(-1)>>}

GrowFrames ==
    {MkDrawData(DisplayPos, sz, DisplayScale, [k \in 1..Len(cs) |-> MkDrawList(cs[k])]) :
        sz \in GrowSizes, cs \in GrowLists}

NextGrow == Render(GrowFrames) \/ Step

SpecGrow == Init /\ [][NextGrow]_vars

\* frames whose display offset, framebuffer scale and clip rectangles have fractions
\* and signs: display_pos (3.5, -2), framebuffer_scale (1.5, 2), clip_rect
\* (0, 5.5, 20, 30.5), next to the plain display_pos (0, 0) and scale (1, 1)
ClipC == <<FX(0), FX(5) + 1, FX(20), FX(30) + 1>>

ScissorLists ==
    << <<Elements(6, ClipA, FONT_TEX_ID), RawCallback>>,
       <<ResetRenderState, Elements(3, ClipC, 0)>> >>

ScissorPos == {<<FX(0), FX(0)>>, <<FX(3) + 1, FX(-2)>>}

ScissorScales == {<<FX(1), FX(1)>>, <<FX(1) + 1, FX(2)>>}

ScissorFrames ==
    {MkDrawData(p, <<FX(100), FX(80)>>, sc,
                [k \in 1..Len(ScissorLists) |-> MkDrawList(ScissorLists[k])]) :
        p \in ScissorPos, sc \in ScissorScales}

NextScissor == Render(ScissorFrames) \/ Step

SpecScissor == Init /\ [][NextScissor]_vars

(* ------------------------------------------------------------------ *)
(* Properties                                                          *)
(* ------------------------------------------------------------------ *)

\* a device call of the running render failed
SomeCallFailed == \E i \in 1..Len(calls) : ~calls[i].ok

\* the running render invoked a RawCallback
SomeCallback == \E i \in 1..Len(calls) : calls[i].op = "callback"

\* the command a logged draw call was issued for
CmdOfDraw(d) == draw_data.draw_lists[d.li].commands[d.ci]

\* C1: when render returns, whatever its result (success, a device error at any
\* step, an invalid texture reference) and whatever a RawCallback did to the device,
\* every captured field of the device state has the value it had at the moment
\* render was called.
C1_StateRestoredOnReturn == pc = "returned" => dev = before.dev

\* a render that ran a RawCallback, then failed in a device call, and has returned
C1_ReturnedAfterCallbackAndError ==
    /\ pc = "returned"
    /\ result = "DeviceError"
    /\ SomeCallback
    /\ calls[Len(calls)] = Call("Apply", TRUE)

\* C2: when the draw loop is at an Elements command whose texture id is not the
\* reserved font identifier and is absent from the registry, render returns
\* DXGI_ERROR_INVALID_CALL and issues no draw call for that or any later command.
C2_MissingTextureReturnsInvalidCall ==
    [][(/\ AtCommand
        /\ CurrentCmd.kind = "Elements"
        /\ CurrentCmd.texture_id # FONT_TEX_ID
        /\ CurrentCmd.texture_id \notin DOMAIN textures)
       => (/\ pc' = "returned"
           /\ result' = "DXGI_ERROR_INVALID_CALL"
           /\ draws' = draws)]_vars

\* C3: a render in which a device call failed ends by returning a device error to
\* the caller; the failure is never turned into a success or a panic.
C3_DeviceFailureReturnsDeviceError ==
    (pc \in {"returned", "panicked"} /\ SomeCallFailed)
        => (pc = "returned" /\ result = "DeviceError")

\* C4: every draw call issued for an Elements command whose texture id is the
\* reserved font identifier is issued with the font texture bound on stage 0,
\* whatever the registry holds and whatever commands came before it in the frame.
C4_FontIdDrawsWithFontTexture ==
    \A i \in 1..Len(draws) :
        CmdOfDraw(draws[i]).texture_id = FONT_TEX_ID => draws[i].texture = font_tex

\* the draw data of the running call has a negative display-size dimension
NegativeDisplay == draw_data.display_size[1] < 0 \/ draw_data.display_size[2] < 0

\* C5: when either display-size dimension is negative, render returns success and
\* issues no device call at all: no buffer is reallocated, no state block is taken,
\* no state is set, nothing is locked or uploaded, nothing is drawn and no
\* RawCallback is invoked, whatever the draw lists contain.
C5_NegativeDisplaySizeIsNoOp ==
    NegativeDisplay =>
        /\ pc = "returned"
        /\ result = "Ok"
        /\ calls = <<>>
        /\ draws = <<>>
        /\ locked = {}
        /\ state_guard = NoGuard
        /\ vertex_buffer = before.vertex_buffer
        /\ index_buffer = before.index_buffer
        /\ dev = before.dev

\* a returned render of a frame of negative height whose draw lists hold a
\* RawCallback and an Elements command
C5_NegativeHeightWithCommands ==
    /\ pc = "returned"
    /\ draw_data.display_size[1] >= 0
    /\ draw_data.display_size[2] < 0
    /\ \E li \in 1..Len(draw_data.draw_lists) :
        \E ci, cj \in 1..Len(draw_data.draw_lists[li].commands) :
            /\ draw_data.draw_lists[li].commands[ci].kind = "RawCallback"
            /\ draw_data.draw_lists[li].commands[cj].kind = "Elements"

\* new is still running, or has failed and built no renderer
Constructing == {"new", "new_lock_rect", "new_unlock_rect", "new_cast", "new_context",
                 "new_vertex_buffer", "new_index_buffer", "new_failed"}

\* the device calls a step adds to the log of the running call
NewCalls(old, new) == IF Len(new) >= Len(old) THEN SubSeq(new, Len(old) + 1, Len(new)) ELSE new

\* C6: over the renderer's lifetime, whatever the results of its render calls, no
\* step lowers the capacity of the vertex or of the index buffer, and a frame whose
\* total vertex (index) count is at most the current capacity causes no
\* CreateVertexBuffer (CreateIndexBuffer) call and leaves the buffer as it is.
C6_NoNeedlessReallocation ==
    [][pc \notin Constructing =>
        /\ vertex_buffer'.cap >= vertex_buffer.cap
        /\ index_buffer'.cap >= index_buffer.cap
        /\ draw_data.total_vtx_count <= vertex_buffer.cap =>
            /\ vertex_buffer' = vertex_buffer
            /\ \A i \in 1..Len(NewCalls(calls, calls')) :
                NewCalls(calls, calls')[i].op # "CreateVertexBuffer"
        /\ draw_data.total_idx_count <= index_buffer.cap =>
            /\ index_buffer' = index_buffer
            /\ \A i \in 1..Len(NewCalls(calls, calls')) :
                NewCalls(calls, calls')[i].op # "CreateIndexBuffer"]_vars

\* a render past its sizing step, of a frame that fits buffers an earlier frame
\* has made larger than they were built
C6_FrameWithinGrownCapacity ==
    /\ pc = "backup"
    /\ before.vertex_buffer.cap > 5000
    /\ before.index_buffer.cap > 10000
    /\ draw_data.total_vtx_count > 0
    /\ draw_data.total_vtx_count <= before.vertex_buffer.cap
    /\ draw_data.total_idx_count <= before.index_buffer.cap
    /\ vertex_buffer = before.vertex_buffer
    /\ index_buffer = before.index_buffer

\* the places of render after its two sizing steps
AfterSizing == {"backup", "set_render_state", "lock_vertex_buffer", "lock_index_buffer",
                "write_buffers", "unlock_vertex_buffer", "unlock_index_buffer",
                "set_stream_source", "set_indices", "set_fvf", "bind_font_texture",
                "draw_loop", "set_scissor_rect", "draw_indexed_primitive"}

\* C7: a buffer that new or render allocates has the capacity requested count + 5000
\* (vertices) or requested count + 10000 (indices), the requested count being 0 in
\* new and the frame's total count in render; after the sizing steps of render each
\* capacity is at least the frame's total count.
C7_CapacityIsCountPlusMargin ==
    [][/\ (vertex_buffer' # vertex_buffer /\ pc' # "new_failed") =>
            vertex_buffer'.cap =
                (IF pc = "new_vertex_buffer" THEN 0 ELSE draw_data.total_vtx_count) + 5000
       /\ (index_buffer' # index_buffer /\ pc' # "new_failed") =>
            index_buffer'.cap =
                (IF pc = "new_index_buffer" THEN 0 ELSE draw_data.total_idx_count) + 10000
       /\ pc' \in AfterSizing \cup {"size_index_buffer"} =>
            vertex_buffer'.cap >= draw_data'.total_vtx_count
       /\ pc' \in AfterSizing =>
            index_buffer'.cap >= draw_data'.total_idx_count]_vars

\* a render past its sizing step that has replaced both buffers, the vertex buffer
\* for the second time in the renderer's life
C7_BothBuffersGrown ==
    /\ pc = "backup"
    /\ before.vertex_buffer.cap = 5001 + 5000
    /\ vertex_buffer.cap = 10002 + 5000
    /\ before.index_buffer.cap = 10000
    /\ index_buffer.cap = 10002 + 10000

RECURSIVE SumCounts(_)
SumCounts(cmds) ==
    IF cmds = <<>> THEN 0
    ELSE (IF Head(cmds).kind = "Elements" THEN Head(cmds).count ELSE 0) + SumCounts(Tail(cmds))

\* the sum of the counts of the Elements commands of a sequence of draw lists
RECURSIVE SumListCounts(_)
SumListCounts(lists) ==
    IF lists = <<>> THEN 0 ELSE SumCounts(Head(lists).commands) + SumListCounts(Tail(lists))

\* the places <<draw list, command>> of the Elements commands of a frame
ElementsPlaces(dd) ==
    UNION {{<<li, ci>> : ci \in {c \in 1..Len(dd.draw_lists[li].commands) :
                                    dd.draw_lists[li].commands[c].kind = "Elements"}} :
           li \in 1..Len(dd.draw_lists)}

\* place a comes before place b in draw-list order, then command order
PlaceBefore(a, b) == a[1] < b[1] \/ (a[1] = b[1] /\ a[2] < b[2])

\* C9: in a render that succeeds, the draw calls are one per Elements command, in
\* draw-list order then command order, none for any other command; each succeeded
\* and has base vertex = the vertex counts of the preceding draw lists summed,
\* vertex count = the vertex count of its draw list, start index = the counts of
\* all preceding Elements commands of the frame summed, primitive count = count
\* divided by 3.  One draw list of 4 vertices, 6 indices and one Elements command
\* of count 6 with the font texture gives one call with base vertex 0, start
\* index 0 and primitive count 2.
C9_OneDrawPerElements ==
    (pc = "returned" /\ result = "Ok" /\ ~NegativeDisplay) =>
        LET lists == draw_data.draw_lists IN
        /\ Len(draws) = Cardinality(ElementsPlaces(draw_data))
        /\ \A i \in 1..Len(draws) :
            LET li == draws[i].li
                ci == draws[i].ci
                a  == draws[i].args
            IN /\ <<li, ci>> \in ElementsPlaces(draw_data)
               /\ draws[i].ok
               /\ i > 1 => PlaceBefore(<<draws[i - 1].li, draws[i - 1].ci>>, <<li, ci>>)
               /\ a.base_vertex = SumVtx(SubSeq(lists, 1, li - 1))
               /\ a.num_vertices = Len(lists[li].vtx_buffer)
               /\ a.start_index = SumListCounts(SubSeq(lists, 1, li - 1))
                                    + SumCounts(SubSeq(lists[li].commands, 1, ci - 1))
               /\ a.prim_count = lists[li].commands[ci].count \div 3
        /\ (/\ Len(lists) = 1
            /\ Len(lists[1].vtx_buffer) = 4
            /\ Len(lists[1].idx_buffer) = 6
            /\ lists[1].commands = <<Elements(6, ClipA, FONT_TEX_ID)>>)
           => (/\ Len(draws) = 1
               /\ draws[1].args.base_vertex = 0
               /\ draws[1].args.start_index = 0
               /\ draws[1].args.prim_count = 2)

\* a render that succeeded on two draw lists with an Elements command each: the
\* second draw call has a base vertex and a start index past the first list's
C9_SucceededOnTwoLists ==
    /\ pc = "returned"
    /\ result = "Ok"
    /\ Len(draw_data.draw_lists) = 2
    /\ Len(draws) = 2
    /\ draws[1].li = 1
    /\ draws[2].li = 2
    /\ draws[2].args.base_vertex = 4
    /\ draws[2].args.start_index = 6

\* the vertices of all draw lists, one list after the other
RECURSIVE AllVertices(_)
AllVertices(lists) ==
    IF lists = <<>> THEN <<>> ELSE Head(lists).vtx_buffer \o AllVertices(Tail(lists))

\* the indices of all draw lists, one list after the other
RECURSIVE AllIndices(_)
AllIndices(lists) ==
    IF lists = <<>> THEN <<>> ELSE Head(lists).idx_buffer \o AllIndices(Tail(lists))

\* C10: after the upload, every source vertex with colour bytes (c0, c1, c2, c3) is
\* in the vertex buffer with colour bytes (c2, c1, c0, c3), position (x, y, 0) and
\* its UV unchanged, so (10, 20, 30, 40) is there as (30, 20, 10, 40); the
\* reordering applied twice gives the source colour back; the index buffer holds
\* the source indices unchanged.
C10_UploadSwapsRedAndBlue ==
    pc = "unlock_vertex_buffer" =>
        LET src == AllVertices(draw_data.draw_lists) IN
        /\ Len(loc.vtx_dst) = Len(src)
        /\ \A p \in 1..Len(src) :
            LET c == src[p].col
                w == loc.vtx_dst[p]
            IN /\ w.col = <<c[3], c[2], c[1], c[4]>>
               /\ w.pos = <<src[p].pos[1], src[p].pos[2], 0>>
               /\ w.uv = src[p].uv
               /\ c = <<10, 20, 30, 40>> => w.col = <<30, 20, 10, 40>>
               /\ CustomVertex(w).col = c
        /\ loc.idx_dst = AllIndices(draw_data.draw_lists)

\* an upload of two draw lists, a quad and a triangle, with a vertex of colour
\* (10, 20, 30, 40) in each
C10_UploadedTwoLists ==
    /\ pc = "unlock_vertex_buffer"
    /\ Len(draw_data.draw_lists) = 2
    /\ Len(loc.vtx_dst) = 7
    /\ Len(loc.idx_dst) = 9
    /\ Len(draw_data.draw_lists[1].vtx_buffer) = 4
    /\ draw_data.draw_lists[1].vtx_buffer[1].col = <<10, 20, 30, 40>>
    /\ loc.vtx_dst[1].col = <<30, 20, 10, 40>>
    /\ loc.vtx_dst[5].col = <<30, 20, 10, 40>>

\* n is x with its fraction dropped, x being q quarters
TruncatedQuarters(n, q) ==
    IF q >= 0 THEN n >= 0 /\ 4 * n <= q /\ q < 4 * n + 4
              ELSE n <= 0 /\ 4 * n >= q /\ q > 4 * n - 4

\* r is the rectangle ((clip[0]-pos[0])*scale[0], (clip[1]-pos[1])*scale[1],
\* (clip[2]-pos[0])*scale[0], (clip[3]-pos[1])*scale[1]) truncated to integers
ScissorOf(r, clip, pos, scale) ==
    /\ TruncatedQuarters(r[1], (clip[1] - pos[1]) * scale[1])
    /\ TruncatedQuarters(r[2], (clip[2] - pos[2]) * scale[2])
    /\ TruncatedQuarters(r[3], (clip[3] - pos[1]) * scale[1])
    /\ TruncatedQuarters(r[4], (clip[4] - pos[2]) * scale[2])

\* C11: the scissor rectangle in force at the draw call of an Elements command was
\* set by the device call just before it and is (left, top, right, bottom) =
\* ((clip[0]-pos[0])*scale[0], (clip[1]-pos[1])*scale[1], (clip[2]-pos[0])*scale[0],
\* (clip[3]-pos[1])*scale[1]) truncated to integers, pos being the display offset and
\* scale the framebuffer scale; for clip_rect (10, 10, 50, 50), display_pos (0, 0)
\* and framebuffer_scale (1, 1) it is (10, 10, 50, 50).
C11_ScissorRectOfCommand ==
    /\ pc = "draw_indexed_primitive" =>
        /\ calls[Len(calls)] = Call("SetScissorRect", TRUE)
        /\ ScissorOf(dev.scissor, CurrentCmd.clip_rect, draw_data.display_pos,
                     draw_data.framebuffer_scale)
    /\ \A i \in 1..Len(draws) :
        LET clip == CmdOfDraw(draws[i]).clip_rect IN
        /\ ScissorOf(draws[i].scissor, clip, draw_data.display_pos,
                     draw_data.framebuffer_scale)
        /\ (/\ clip = <<FX(10), FX(10), FX(50), FX(50)>>
            /\ draw_data.display_pos = <<FX(0), FX(0)>>
            /\ draw_data.framebuffer_scale = <<FX(1), FX(1)>>)
           => draws[i].scissor = <<10, 10, 50, 50>>

\* two draw calls of one frame: clip (10, 10, 50, 50) and clip (0, 5.5, 20, 30.5)
\* under display_pos (3.5, -2) and framebuffer_scale (1.5, 2), the second with
\* -5.25 truncated to -5 and 24.75 to 24
C11_DrawnWithTruncatedScissor ==
    /\ Len(draws) = 2
    /\ draw_data.display_pos = <<FX(3) + 1, FX(-2)>>
    /\ draw_data.framebuffer_scale = <<FX(1) + 1, FX(2)>>
    /\ draws[1].scissor = <<9, 24, 69, 104>>
    /\ draws[2].scissor = <<-5, 15, 24, 65>>

\* the totals of a draw data are the sums over its draw lists, and the counts of the
\* Elements commands of each draw list sum to its index count
WellFormed(dd) ==
    /\ dd.total_vtx_count = SumVtx(dd.draw_lists)
    /\ dd.total_idx_count = SumIdx(dd.draw_lists)
    /\ \A k \in 1..Len(dd.draw_lists) :
        SumCounts(dd.draw_lists[k].commands) = Len(dd.draw_lists[k].idx_buffer)

\* C12: for a well-formed draw data, the base vertex of every draw call of draw
\* list k is the place of the vertex buffer where write_buffers stored the first
\* vertex of list k, and the vertices of the list follow from there; the start
\* index of every Elements command is the place of the index buffer where its
\* first index was stored, and its indices follow from there; the index range
\* [start, start + count) of every draw call lies inside [0, total index count).
C12_DrawOffsetsAgreeWithUpload ==
    WellFormed(draw_data) =>
        \A i \in 1..Len(draws) :
            LET list  == draw_data.draw_lists[draws[i].li]
                count == CmdOfDraw(draws[i]).count
                ahead == SumCounts(SubSeq(list.commands, 1, draws[i].ci - 1))
                a     == draws[i].args
            IN /\ a.base_vertex = uploaded.starts[draws[i].li][1]
               /\ a.base_vertex + Len(list.vtx_buffer) <= Len(uploaded.vtx_dst)
               /\ \A j \in 1..Len(list.vtx_buffer) :
                    /\ uploaded.vtx_dst[a.base_vertex + j].uv = list.vtx_buffer[j].uv
                    /\ uploaded.vtx_dst[a.base_vertex + j].pos[1] = list.vtx_buffer[j].pos[1]
                    /\ uploaded.vtx_dst[a.base_vertex + j].pos[2] = list.vtx_buffer[j].pos[2]
               /\ a.start_index = uploaded.starts[draws[i].li][2] + ahead
               /\ a.start_index >= 0
               /\ a.start_index + count <= draw_data.total_idx_count
               /\ Len(uploaded.idx_dst) = draw_data.total_idx_count
               /\ \A m \in 1..count :
                    uploaded.idx_dst[a.start_index + m] = list.idx_buffer[ahead + m]

\* the draw call of a command of the second draw list, behind a first draw list of
\* four vertices and six indices
C12_DrawnFromSecondList ==
    /\ Len(draws) = 2
    /\ draws[2].li = 2
    /\ uploaded.starts = << <<0, 0>>, <<4, 6>> >>
    /\ draws[2].args.base_vertex = 4
    /\ draws[2].args.start_index = 6

\* the Lock and Unlock calls of the two buffers, as the call log names them
BufferCalls == {[lock |-> "VertexBuffer.Lock", unlock |-> "VertexBuffer.Unlock"],
                [lock |-> "IndexBuffer.Lock", unlock |-> "IndexBuffer.Unlock"]}

\* C13: when render returns, with success or with an error, every successful Lock
\* of the vertex or of the index buffer has been followed by an Unlock call of that
\* same buffer, also when the Lock of the index buffer failed after the Lock of the
\* vertex buffer succeeded and when an Unlock call failed; and no draw call was
\* issued while a buffer was locked.
C13_EveryLockIsFollowedByUnlock ==
    pc = "returned" =>
        /\ \A b \in BufferCalls :
            \A i \in 1..Len(calls) :
                calls[i] = Call(b.lock, TRUE) =>
                    \E j \in (i + 1)..Len(calls) : calls[j].op = b.unlock
        /\ \A i \in 1..Len(draws) : draws[i].locked = {}

====
